---- MODULE Spec2Model ----
(***************************************************************************)
(* A model of the TSX-to-SVG converter: the pattern-based rewriting done   *)
(* by transformSvg (src/src/transformer.ts), at the level of characters.   *)
(* A text is a sequence of one-character strings; every regular expression *)
(* of the source is an operator that gives the length of its match at a    *)
(* position, and the replace calls are built from those.  The extractor    *)
(* (extractSvgFromTsx) and the batch driver (toSnakeCase, processFile,     *)
(* main) are modelled the same way, each with a specification of its own:  *)
(* Spec for the transformer, SpecExtract, SpecNames and SpecMain.          *)
(***************************************************************************)
EXTENDS Integers, Sequences, FiniteSets, TLC

VARIABLES svgContent, options, pc, trace, result, again

\* the extractor and the naming of the output file
VARIABLES inputPath, readOutcome, extractResult, outputPath

\* the batch driver
VARIABLES files, fileIndex, step, transformResult, results, calls, outputs,
          exitCode

transformerVars == <<svgContent, options, pc, trace, result, again>>

extractorVars == <<inputPath, readOutcome, extractResult, outputPath>>

driverVars == <<files, fileIndex, step, transformResult, results, calls,
                outputs, exitCode>>

vars == <<transformerVars, extractorVars, driverVars>>

\* the variables of a part that a specification does not use
TransformerUnused ==
  /\ svgContent = <<>>
  /\ options = <<>>
  /\ pc = "unused"
  /\ trace = <<>>
  /\ result = <<>>
  /\ again = <<>>

ExtractorUnused ==
  /\ inputPath = <<>>
  /\ readOutcome = <<>>
  /\ extractResult = <<>>
  /\ outputPath = <<>>

DriverUnused ==
  /\ files = <<>>
  /\ fileIndex = 0
  /\ step = "unused"
  /\ transformResult = <<>>
  /\ results = <<>>
  /\ calls = <<>>
  /\ outputs = {}
  /\ exitCode = <<>>

-----------------------------------------------------------------------------
(* Characters and character classes of the regular expressions.            *)

Uppers == <<"A","B","C","D","E","F","G","H","I","J","K","L","M",
            "N","O","P","Q","R","S","T","U","V","W","X","Y","Z">>

Lowers == <<"a","b","c","d","e","f","g","h","i","j","k","l","m",
            "n","o","p","q","r","s","t","u","v","w","x","y","z">>

UpperSet == {Uppers[k] : k \in DOMAIN Uppers}

LowerSet == {Lowers[k] : k \in DOMAIN Lowers}

DigitSet == {"0","1","2","3","4","5","6","7","8","9"}

\* \s
IsWs(c) == c \in {" ", "\n", "\t"}

\* \d
IsDigit(c) == c \in DigitSet

\* [a-z]
IsLower(c) == c \in LowerSet

\* [A-Z]
IsUpper(c) == c \in UpperSet

\* [a-zA-Z]
IsLetter(c) == IsLower(c) \/ IsUpper(c)

\* one character of String.prototype.toLowerCase, and of the i flag
LowerChar(c) ==
  IF IsUpper(c) THEN Lowers[CHOOSE k \in DOMAIN Uppers : Uppers[k] = c] ELSE c

toLowerCase(s) == [k \in DOMAIN s |-> LowerChar(s[k])]

-----------------------------------------------------------------------------
(* The regular-expression engine, as far as the source's patterns need it. *)

\* the literal lit stands in s at position i
HasAt(s, i, lit) ==
  /\ i >= 1
  /\ i + Len(lit) - 1 <= Len(s)
  /\ \A k \in 1..Len(lit) : s[i + k - 1] = lit[k]

\* the same under the i flag (lit is written in lower case)
HasAtI(s, i, lit) ==
  /\ i >= 1
  /\ i + Len(lit) - 1 <= Len(s)
  /\ \A k \in 1..Len(lit) : LowerChar(s[i + k - 1]) = lit[k]

WsSet == {" ", "\n", "\t"}

LetterSet == LowerSet \cup UpperSet

\* the first position >= i that holds no character of class, Len(s)+1 if
\* none: where a greedy run of class, class*, that starts at i ends
SkipWhile(s, i, class) ==
  CHOOSE k \in i..(Len(s) + 1) :
    /\ k > Len(s) \/ s[k] \notin class
    /\ \A j \in i..(k - 1) : s[j] \in class

\* the first position >= i that holds no whitespace (a greedy \s*)
SkipWs(s, i) == SkipWhile(s, i, WsSet)

\* the first position >= i that holds no digit (a greedy \d*)
SkipDigits(s, i) == SkipWhile(s, i, DigitSet)

\* the first position >= i that holds no letter (a greedy [a-zA-Z]*)
SkipLetters(s, i) == SkipWhile(s, i, LetterSet)

\* the first position >= i that holds a character of stop, Len(s)+1 if none
FindChar(s, i, stop) ==
  CHOOSE k \in i..(Len(s) + 1) :
    /\ k > Len(s) \/ s[k] \in stop
    /\ \A j \in i..(k - 1) : s[j] \notin stop

\* s.substring(i - 1, j): the characters at positions i..j
Sub(s, i, j) == IF j < i THEN <<>> ELSE SubSeq(s, i, j)

\* the least element of a non-empty set of positions
Least(P) == CHOOSE k \in P : \A j \in P : k <= j

\* A pattern applied to a text s is the function m on 1..Len(s) that gives
\* the length of the pattern's match at each position (0: no match there;
\* no pattern of the source matches the empty string), and a replacement
\* is the function r that gives the text to put for the match at each
\* position.

\* String.prototype.replace with a g-flag pattern. The scan goes on after
\* each match and never looks at what it has written.
ReplaceAll(s, m, r) ==
  LET P == {k \in 1..Len(s) : m[k] > 0}
      f[i \in 1..(Len(s) + 1)] ==
        LET Q == {k \in P : k >= i}
        IN  IF Q = {} THEN Sub(s, i, Len(s))
            ELSE LET k == Least(Q)
                 IN  Sub(s, i, k - 1) \o r[k] \o f[k + m[k]]
  IN  f[1]

\* the position of the leftmost match in s, 0 if there is none
FirstMatch(s, m) ==
  IF \A k \in 1..Len(s) : m[k] = 0 THEN 0
  ELSE CHOOSE k \in 1..Len(s) : m[k] > 0 /\ \A j \in 1..(k - 1) : m[j] = 0

\* String.prototype.replace with a pattern without the g flag
ReplaceFirst(s, m, r) ==
  LET i == FirstMatch(s, m)
  IN  IF i = 0 THEN s
      ELSE Sub(s, 1, i - 1) \o r[i] \o Sub(s, i + m[i], Len(s))

-----------------------------------------------------------------------------
(* The literals of src/src/transformer.ts.                                 *)

LitSvg == <<"<","s","v","g">>

LitDots == <<".",".",".">>

LitProps == <<"p","r","o","p","s">>

LitCurrentColor == <<"c","u","r","r","e","n","t","c","o","l","o","r">>

LitEqBrace == <<"=","{">>

LitViewBoxEq == <<"v","i","e","w","b","o","x","=">>

LitWidthEqQ == <<"w","i","d","t","h","=","\"">>

LitHeightEqQ == <<"h","e","i","g","h","t","=","\"">>

LitXmlnsEq == <<"x","m","l","n","s","=">>

LitSvgXmlns == <<"<","s","v","g"," ","x","m","l","n","s","=","\"","h","t","t","p",":","/","/","w","w","w",".","w","3",".","o","r","g","/","2","0","0","0","/","s","v","g","\"">>

LitSvgWidth == <<"<","s","v","g"," ","w","i","d","t","h","=","\"">>

LitSvgHeight == <<"<","s","v","g"," ","h","e","i","g","h","t","=","\"">>

DefaultColor == <<"#","0","0","0","0","0","0">>

Quotes == {"\"", "'"}

\* the names that stay in camelCase
SVG_CAMEL_CASE_ATTRS ==
  {<<"v","i","e","w","B","o","x">>,
   <<"p","r","e","s","e","r","v","e","A","s","p","e","c","t","R","a","t","i","o">>,
   <<"g","r","a","d","i","e","n","t","U","n","i","t","s">>,
   <<"g","r","a","d","i","e","n","t","T","r","a","n","s","f","o","r","m">>,
   <<"c","l","i","p","P","a","t","h","U","n","i","t","s">>,
   <<"b","a","s","e","F","r","e","q","u","e","n","c","y">>,
   <<"c","a","l","c","M","o","d","e">>,
   <<"t","a","b","l","e","V","a","l","u","e","s">>,
   <<"t","a","r","g","e","t","X">>,
   <<"t","a","r","g","e","t","Y">>,
   <<"p","a","t","t","e","r","n","U","n","i","t","s">>,
   <<"p","a","t","t","e","r","n","C","o","n","t","e","n","t","U","n","i","t","s">>,
   <<"p","a","t","t","e","r","n","T","r","a","n","s","f","o","r","m">>,
   <<"m","a","s","k","U","n","i","t","s">>,
   <<"m","a","s","k","C","o","n","t","e","n","t","U","n","i","t","s">>}

-----------------------------------------------------------------------------
(* The patterns of transformSvg: the length of the match at position i.    *)

\* /\{\s*\.\.\.\s*props\s*\}/
MSpread(s, i) ==
  IF s[i] # "{" THEN 0
  ELSE LET a == SkipWs(s, i + 1)
           b == SkipWs(s, a + 3)
           c == SkipWs(s, b + 5)
       IN  IF /\ HasAt(s, a, LitDots)
              /\ HasAt(s, b, LitProps)
              /\ c <= Len(s)
              /\ s[c] = "}"
           THEN c - i + 1 ELSE 0

\* /currentColor/i
MCurrentColor(s, i) == IF HasAtI(s, i, LitCurrentColor) THEN Len(LitCurrentColor) ELSE 0

\* the start and the end (exclusive) of the group (\d+(?:\.\d+)?) of a
\* numeric expression whose "={" stands at i
NumStart(s, i) == SkipWs(s, i + 2)

NumEnd(s, i) ==
  LET a == NumStart(s, i)
      b == SkipDigits(s, a)
      f == SkipDigits(s, b + 1)
  IN  IF b <= Len(s) /\ s[b] = "." /\ f > b + 1 THEN f ELSE b

\* a variant that takes whole numbers only: /=\{\s*(\d+)\s*\}/
MNumeric_IntegerOnly(s, i) ==
  IF ~HasAt(s, i, LitEqBrace) THEN 0
  ELSE LET a == NumStart(s, i)
           b == SkipDigits(s, a)
           d == SkipWs(s, b)
       IN  IF b > a /\ d <= Len(s) /\ s[d] = "}" THEN d - i + 1 ELSE 0

\* /=\{\s*(\d+(?:\.\d+)?)\s*\}/
MNumeric(s, i) ==
  IF ~HasAt(s, i, LitEqBrace) THEN 0
  ELSE LET a == NumStart(s, i)
           c == NumEnd(s, i)
           d == SkipWs(s, c)
       IN  IF SkipDigits(s, a) > a /\ d <= Len(s) /\ s[d] = "}"
           THEN d - i + 1 ELSE 0

\* '="$1"' for the match at i
RNumeric(s, i) == <<"=", "\"">> \o Sub(s, NumStart(s, i), NumEnd(s, i) - 1) \o <<"\"">>

\* /viewBox=["']([^"']+)["']/i
MViewBox(s, i) ==
  IF ~HasAtI(s, i, LitViewBoxEq) THEN 0
  ELSE LET o == i + Len(LitViewBoxEq)
           q == FindChar(s, o + 1, Quotes)
       IN  IF o <= Len(s) /\ s[o] \in Quotes /\ q <= Len(s) /\ q > o + 1
           THEN q - i + 1 ELSE 0

\* /(<svg[^>]*?>)/i
MSvgTag(s, i) ==
  IF ~HasAtI(s, i, LitSvg) THEN 0
  ELSE LET g == FindChar(s, i + Len(LitSvg), {">"})
       IN  IF g <= Len(s) THEN g - i + 1 ELSE 0

\* /width="[^"]*"/
MWidth(s, i) ==
  IF ~HasAt(s, i, LitWidthEqQ) THEN 0
  ELSE LET q == FindChar(s, i + Len(LitWidthEqQ), {"\""})
       IN  IF q <= Len(s) THEN q - i + 1 ELSE 0

\* /height="[^"]*"/
MHeight(s, i) ==
  IF ~HasAt(s, i, LitHeightEqQ) THEN 0
  ELSE LET q == FindChar(s, i + Len(LitHeightEqQ), {"\""})
       IN  IF q <= Len(s) THEN q - i + 1 ELSE 0

\* /<svg/
MSvg(s, i) == IF HasAt(s, i, LitSvg) THEN Len(LitSvg) ELSE 0

\* /<svg/i
MSvgI(s, i) == IF HasAtI(s, i, LitSvg) THEN Len(LitSvg) ELSE 0

\* /\s([a-z][a-zA-Z]*[A-Z][a-zA-Z]*)=/
MCamelAttr(s, i) ==
  IF ~(IsWs(s[i]) /\ i + 1 <= Len(s) /\ IsLower(s[i + 1])) THEN 0
  ELSE LET e == SkipLetters(s, i + 1)
       IN  IF /\ e <= Len(s)
              /\ s[e] = "="
              /\ \E k \in (i + 2)..(e - 1) : IsUpper(s[k])
           THEN e - i + 1 ELSE 0

\* /([a-z0-9])([A-Z])/
MLowerUpper(s, i) ==
  IF i + 1 <= Len(s) /\ (IsLower(s[i]) \/ IsDigit(s[i])) /\ IsUpper(s[i + 1])
  THEN 2 ELSE 0

\* '$1-$2' for the match at i
RLowerUpper(s, i) == <<s[i], "-", s[i + 1]>>

\* /\s+/
MWsRun(s, i) == IF IsWs(s[i]) THEN SkipWs(s, i) - i ELSE 0

\* /\s+>/
MWsGt(s, i) ==
  IF ~IsWs(s[i]) THEN 0
  ELSE LET e == SkipWs(s, i)
       IN  IF e <= Len(s) /\ s[e] = ">" THEN e - i + 1 ELSE 0


-----------------------------------------------------------------------------
(* camelToKebab and extractViewBoxDimensions.                              *)

camelToKebab(str) ==
  toLowerCase(ReplaceAll(str, [i \in 1..Len(str) |-> MLowerUpper(str, i)],
                              [i \in 1..Len(str) |-> RLowerUpper(str, i)]))

\* String.prototype.split(/\s+/): a leading or trailing run of whitespace
\* leaves an empty first or last field
SplitWs(s) ==
  LET f[i \in 1..(Len(s) + 1)] ==
        LET j == FindChar(s, i, {" ", "\n", "\t"})
        IN  IF j > Len(s) THEN <<Sub(s, i, Len(s))>>
            ELSE <<Sub(s, i, j - 1)>> \o f[SkipWs(s, j)]
  IN  f[1]

\* An absent (undefined) string and the empty string are both falsy in the
\* source's tests; both are the empty sequence here.
Absent == <<>>

\* a variant that falls back to a size of 24 when there is no viewBox
extractViewBoxDimensions_Default(content) ==
  LET i == FirstMatch(content, [k \in 1..Len(content) |-> MViewBox(content, k)])
  IN  IF i = 0 THEN [width |-> <<"2", "4">>, height |-> <<"2", "4">>]
      ELSE LET o      == i + Len(LitViewBoxEq)
               values == SplitWs(Sub(content, o + 1, i + MViewBox(content, i) - 2))
           IN  IF Len(values) >= 4
               THEN [width |-> values[3], height |-> values[4]]
               ELSE [width |-> Absent, height |-> Absent]

extractViewBoxDimensions(content) ==
  LET i == FirstMatch(content, [k \in 1..Len(content) |-> MViewBox(content, k)])
  IN  IF i = 0 THEN [width |-> Absent, height |-> Absent]
      ELSE LET o      == i + Len(LitViewBoxEq)
               values == SplitWs(Sub(content, o + 1, i + MViewBox(content, i) - 2))
           IN  IF Len(values) >= 4
               THEN [width |-> values[3], height |-> values[4]]
               ELSE [width |-> Absent, height |-> Absent]

-----------------------------------------------------------------------------
(* transformSvg, statement by statement.                                   *)

\* options?.color || '#000000'
replacementColor(o) == IF o.color # Absent THEN o.color ELSE DefaultColor

RemoveSpread(t) ==
  ReplaceAll(t, [i \in 1..Len(t) |-> MSpread(t, i)], [i \in 1..Len(t) |-> <<>>])

\* a variant without the i flag: /currentColor/g
ReplaceColor_CaseSensitive(t, color) ==
  ReplaceAll(t,
             [i \in 1..Len(t) |->
                IF HasAt(t, i, <<"c","u","r","r","e","n","t","C","o","l","o","r">>)
                THEN Len(LitCurrentColor) ELSE 0],
             [i \in 1..Len(t) |-> color])

ReplaceColor(t, color) ==
  ReplaceAll(t, [i \in 1..Len(t) |-> MCurrentColor(t, i)], [i \in 1..Len(t) |-> color])

CoerceNumeric(t) ==
  ReplaceAll(t, [i \in 1..Len(t) |-> MNumeric(t, i)], [i \in 1..Len(t) |-> RNumeric(t, i)])

targetWidth(t, o) ==
  IF o.width # Absent THEN o.width ELSE extractViewBoxDimensions(t).width

targetHeight(t, o) ==
  IF o.height # Absent THEN o.height ELSE extractViewBoxDimensions(t).height

SetWidth(tag, w) ==
  IF w = Absent THEN tag
  ELSE IF FirstMatch(tag, [i \in 1..Len(tag) |-> MWidth(tag, i)]) # 0
       THEN ReplaceFirst(tag, [i \in 1..Len(tag) |-> MWidth(tag, i)],
                         [i \in 1..Len(tag) |-> LitWidthEqQ \o w \o <<"\"">>])
       ELSE ReplaceFirst(tag, [i \in 1..Len(tag) |-> MSvg(tag, i)],
                         [i \in 1..Len(tag) |-> LitSvgWidth \o w \o <<"\"">>])

SetHeight(tag, h) ==
  IF h = Absent THEN tag
  ELSE IF FirstMatch(tag, [i \in 1..Len(tag) |-> MHeight(tag, i)]) # 0
       THEN ReplaceFirst(tag, [i \in 1..Len(tag) |-> MHeight(tag, i)],
                         [i \in 1..Len(tag) |-> LitHeightEqQ \o h \o <<"\"">>])
       ELSE ReplaceFirst(tag, [i \in 1..Len(tag) |-> MSvg(tag, i)],
                         [i \in 1..Len(tag) |-> LitSvgHeight \o h \o <<"\"">>])

\* a variant that rewrites the first width and height of the whole text,
\* not of the root opening tag
SetDimensions_WholeText(t, w, h) ==
  IF w = Absent /\ h = Absent THEN t ELSE SetHeight(SetWidth(t, w), h)

SetDimensions(t, w, h) ==
  IF w = Absent /\ h = Absent THEN t
  ELSE ReplaceFirst(t, [i \in 1..Len(t) |-> MSvgTag(t, i)],
                    [i \in 1..Len(t) |->
                       SetHeight(SetWidth(Sub(t, i, i + MSvgTag(t, i) - 1), w), h)])

\* a variant that does not look for an xmlns already there
AddXmlns_Always(t) ==
  ReplaceFirst(t, [i \in 1..Len(t) |-> MSvgI(t, i)], [i \in 1..Len(t) |-> LitSvgXmlns])

\* String.prototype.includes
includes(s, lit) == \E i \in 1..Len(s) : HasAt(s, i, lit)

AddXmlns(t) ==
  IF includes(t, LitXmlnsEq) THEN t
  ELSE ReplaceFirst(t, [i \in 1..Len(t) |-> MSvgI(t, i)], [i \in 1..Len(t) |-> LitSvgXmlns])

\* a variant without the allow-list: every matched name is rewritten
RCamelAttr_NoAllowList(s, i) ==
  <<" ">> \o camelToKebab(Sub(s, i + 1, i + MCamelAttr(s, i) - 2)) \o <<"=">>

RCamelAttr(s, i) ==
  LET n        == MCamelAttr(s, i)
      attrName == Sub(s, i + 1, i + n - 2)
  IN  IF attrName \in SVG_CAMEL_CASE_ATTRS THEN Sub(s, i, i + n - 1)
      ELSE <<" ">> \o camelToKebab(attrName) \o <<"=">>

KebabAttrs(t) ==
  ReplaceAll(t, [i \in 1..Len(t) |-> MCamelAttr(t, i)], [i \in 1..Len(t) |-> RCamelAttr(t, i)])

\* a variant that keeps the first character of each run of whitespace
CollapseWs_FirstChar(t) ==
  ReplaceAll(t, [i \in 1..Len(t) |-> MWsRun(t, i)], [i \in 1..Len(t) |-> <<t[i]>>])

CollapseWs(t) ==
  ReplaceAll(t, [i \in 1..Len(t) |-> MWsRun(t, i)], [i \in 1..Len(t) |-> <<" ">>])

\* a variant that also drops the whitespace before "/>": /\s+(\/?>)/
TrimBeforeGt_SlashToo(t) ==
  ReplaceAll(t,
             [i \in 1..Len(t) |->
                IF ~IsWs(t[i]) THEN 0
                ELSE LET e == SkipWs(t, i)
                     IN  IF e <= Len(t) /\ (t[e] = ">" \/ HasAt(t, e, <<"/", ">">>))
                         THEN e - i ELSE 0],
             [i \in 1..Len(t) |-> <<>>])

TrimBeforeGt(t) ==
  ReplaceAll(t, [i \in 1..Len(t) |-> MWsGt(t, i)], [i \in 1..Len(t) |-> <<">">>])

\* the values the local variable transformed takes, in order
transformTrace(content, o) ==
  LET t1 == RemoveSpread(content)
      t2 == ReplaceColor(t1, replacementColor(o))
      t3 == CoerceNumeric(t2)
      t4 == SetDimensions(t3, targetWidth(t3, o), targetHeight(t3, o))
      t5 == AddXmlns(t4)
      t6 == KebabAttrs(t5)
      t7 == CollapseWs(t6)
      t8 == TrimBeforeGt(t7)
  IN  <<t1, t2, t3, t4, t5, t6, t7, t8>>

\* No statement of the try block throws on a string, so the catch branch
\* (success: false) is never taken.
SuccessOf(tr) == [success |-> TRUE, data |-> tr[Len(tr)]]

transformSvg(content, o) == SuccessOf(transformTrace(content, o))

-----------------------------------------------------------------------------
(* The inputs: fragments as extractSvgFromTsx hands them over, "<svg" ...  *)
(* "</svg>", put together from attributes of the root tag and one nested   *)
(* element, and the end-to-end example of the README.                      *)

\* the most attributes a generated root tag carries
MaxAttrs == 3

\* the attributes a generated root tag may carry, in the order they come
RootAttrs ==
  <<<<" ","s","t","r","o","k","e","W","i","d","t","h","=","\"","2","\"">>,
    <<" ","s","t","r","o","k","e","-","w","i","d","t","h","=","\"","2","\"">>,
    <<" ","w","i","d","t","h","=","\"","1","e","m","\"">>,
    <<" ","h","e","i","g","h","t","=","{","2","4","}">>,
    <<" ","v","i","e","w","B","o","x","=","\"","0"," ","0"," ","6"," ","6","\"">>,
    <<" ","f","i","l","l","=","\"","c","u","r","r","e","n","t","C","o","l","o","r","\"">>,
    <<"\n"," "," ","{",".",".",".","p","r","o","p","s","}">>,
    <<" ","x","m","l","n","s","=","\"","h","t","t","p",":","/","/","w","w","w",".","w","3",".","o","r","g","/","2","0","0","0","/","s","v","g","\"">>>>

\* the nested elements a generated fragment may hold (at most one)
Children ==
  {<<>>,
   <<"<","r","e","c","t"," ","w","i","d","t","h","=","{","3","}"," ","h","e","i","g","h","t","=","\"","7","\""," ","r","x","=","{"," ","4",".","5"," ","}"," ","/",">">>,
   <<"<","p","a","t","h"," ","f","i","l","l","R","u","l","e","=","\"","e","v","e","n","o","d","d","\""," ","s","t","r","o","k","e","=","\"","C","u","r","r","e","n","t","C","O","L","O","R","\"","/",">">>,
   <<"<","g"," ","x","m","l","n","s","=","\"","h","t","t","p",":","/","/","w","w","w",".","w","3",".","o","r","g","/","2","0","0","0","/","s","v","g","\"","/",">">>,
   <<"<","g"," ","{",".",".",".","{",".",".",".","p","r","o","p","s","}","p","r","o","p","s","}","/",">">>,
   <<"<","t","e","x","t"," ","i","d","=","\"","a"," ","f","o","o","B","a","r","=","1","\"",">","\t","m","y","V","a","r","=","2"," "," ","b","<","/","t","e","x","t",">">>}

LitGt == <<">">>

LitSvgClose == <<"<","/","s","v","g",">">>

\* the attributes picked by the index set S, in order
JoinAttrs(S) ==
  LET f[k \in 1..(Len(RootAttrs) + 1)] ==
        IF k > Len(RootAttrs) THEN <<>>
        ELSE (IF k \in S THEN RootAttrs[k] ELSE <<>>) \o f[k + 1]
  IN  f[1]

Fragment(S, child) == LitSvg \o JoinAttrs(S) \o LitGt \o child \o LitSvgClose

\* README, "Example": icons/AddMember.tsx, on one line
ExampleFragment ==
  <<"<","s","v","g"," ","w","i","d","t","h","=","\"","2","4","\""," ","h","e","i","g","h","t","=","\"","2","4","\""," ","v","i","e","w","B","o","x","=","\"","0"," ","0"," ","2","4"," ","2","4","\""," ","f","i","l","l","=","\"","c","u","r","r","e","n","t","C","o","l","o","r","\""," ","{",".",".",".","p","r","o","p","s","}",">","<","p","a","t","h"," ","d","=","\"","M","1"," ","1","\""," ","/",">","<","/","s","v","g",">">>

Fragments ==
  {Fragment(S, child) :
     S \in {T \in SUBSET (DOMAIN RootAttrs) : Cardinality(T) <= MaxAttrs},
     child \in Children}
  \cup {ExampleFragment}

\* --width and --height are opaque strings, --color a hex colour (main
\* rejects any other); each may be absent
Widths == {Absent, <<"3","2">>}

Heights == {Absent, <<"1","6">>}

Colors == {Absent, <<"#","4","0","4","0","4","0">>}

OptionValues == [width : Widths, height : Heights, color : Colors]

-----------------------------------------------------------------------------
(* The state machine: a caller transforms a fragment, then transforms the  *)
(* text it got once more with the same options.                            *)

NotCalled == [success |-> FALSE, data |-> <<>>]

Init ==
  /\ svgContent \in Fragments
  /\ options \in OptionValues
  /\ pc = "start"
  /\ trace = <<>>
  /\ result = NotCalled
  /\ again = NotCalled
  /\ ExtractorUnused
  /\ DriverUnused

\* transformSvg(svgContent, options)
Transform ==
  /\ pc = "start"
  /\ trace' = transformTrace(svgContent, options)
  /\ result' = SuccessOf(trace')
  /\ pc' = "transformed"
  /\ UNCHANGED <<svgContent, options, again, extractorVars, driverVars>>

\* transformSvg(result.data, options): the transformer on its own output
Retransform ==
  /\ pc = "transformed"
  /\ result.success
  /\ again' = transformSvg(result.data, options)
  /\ pc' = "retransformed"
  /\ UNCHANGED <<svgContent, options, trace, result, extractorVars, driverVars>>

Next == Transform \/ Retransform

Spec == Init /\ [][Next]_vars

-----------------------------------------------------------------------------
(* What the properties speak of: occurrences, the root tag, attributes.    *)

\* the values of the local variable transformed after each statement
AfterSpread == trace[1]

AfterColor == trace[2]

AfterNumeric == trace[3]

AfterDimensions == trace[4]

AfterXmlns == trace[5]

Called == pc # "start"

NoOptions == [width |-> Absent, height |-> Absent, color |-> Absent]

\* the number of places where lit stands in t
Occurrences(t, lit) == Cardinality({i \in 1..Len(t) : HasAt(t, i, lit)})

\* the same, in any letter casing
OccurrencesI(t, lit) == Cardinality({i \in 1..Len(t) : HasAtI(t, i, lit)})

Contains(t, lit) == Occurrences(t, lit) > 0

\* the root opening tag of a fragment: up to its first ">"
RootTag(t) == Sub(t, 1, FindChar(t, 1, {">"}))

\* what follows the root opening tag: the nested elements and the end tag
NestedPart(t) == Sub(t, FindChar(t, 1, {">"}) + 1, Len(t))

\* s without the whitespace at its ends
Trim(s) ==
  LET N == {k \in 1..Len(s) : ~IsWs(s[k])}
  IN  IF N = {} THEN <<>>
      ELSE Sub(s, SkipWs(s, 1), CHOOSE k \in N : \A j \in N : j <= k)

\* where the value of an attribute written at i (whitespace, name, "=",
\* then "..." or {...}) ends; 0 if no such attribute is written at i
AttrEnd(s, i, name) ==
  LET v == i + Len(name) + 2
  IN  IF ~(IsWs(s[i]) /\ HasAt(s, i + 1, name \o <<"=">>) /\ v <= Len(s)) THEN 0
      ELSE IF s[v] = "\"" THEN
             LET q == FindChar(s, v + 1, {"\""}) IN IF q <= Len(s) THEN q ELSE 0
      ELSE IF s[v] = "{" THEN
             LET q == FindChar(s, v + 1, {"}"}) IN IF q <= Len(s) THEN q ELSE 0
      ELSE 0

\* the values of the attributes called name in t, in the order they come;
\* the value of name={ N } is N, as that of name="N"
AttrValues(t, name) ==
  LET P == {i \in 1..Len(t) : AttrEnd(t, i, name) > 0}
      f[i \in 1..(Len(t) + 1)] ==
        LET Q == {k \in P : k >= i}
        IN  IF Q = {} THEN <<>>
            ELSE LET k == Least(Q)
                     e == AttrEnd(t, k, name)
                 IN  <<Trim(Sub(t, k + Len(name) + 3, e - 1))>> \o f[e + 1]
  IN  f[1]

NameWidth == <<"w","i","d","t","h">>

NameHeight == <<"h","e","i","g","h","t">>

NameRx == <<"r","x">>

Range(f) == {f[k] : k \in DOMAIN f}

\* t has a viewBox attribute (in the letter casing the transformer accepts)
HasViewBox(t) == \E i \in 1..Len(t) : HasAtI(t, i, LitViewBoxEq)

\* a numeric expression ={N} stands at i: N an integer or decimal literal,
\* whitespace allowed inside the braces
NumericExprAt(s, i) ==
  /\ HasAt(s, i, <<"=", "{">>)
  /\ LET a == SkipWs(s, i + 2)
         b == SkipDigits(s, a)
     IN  /\ b > a
         /\ \/ (SkipWs(s, b) <= Len(s) /\ s[SkipWs(s, b)] = "}")
            \/ /\ b <= Len(s) /\ s[b] = "."
               /\ LET c == SkipDigits(s, b + 1)
                  IN  c > b + 1 /\ SkipWs(s, c) <= Len(s) /\ s[SkipWs(s, c)] = "}"

-----------------------------------------------------------------------------
(* The properties.                                                         *)

\* C1, as claimed: transformSvg is idempotent; transforming its own output
\* with the same options gives the same text again.
C1_Idempotent == pc = "retransformed" => again = result

ExampleOutput ==
  <<"<","s","v","g"," ","x","m","l","n","s","=","\"","h","t","t","p",":","/","/","w","w","w",".","w","3",".","o","r","g","/","2","0","0","0","/","s","v","g","\""," ","w","i","d","t","h","=","\"","2","4","\""," ","h","e","i","g","h","t","=","\"","2","4","\""," ","v","i","e","w","B","o","x","=","\"","0"," ","0"," ","2","4"," ","2","4","\""," ","f","i","l","l","=","\"","#","0","0","0","0","0","0","\"",">","<","p","a","t","h"," ","d","=","\"","M","1"," ","1","\""," ","/",">","<","/","s","v","g",">">>

ExampleClaimed ==
  <<"<","s","v","g"," ","x","m","l","n","s","=","\"","h","t","t","p",":","/","/","w","w","w",".","w","3",".","o","r","g","/","2","0","0","0","/","s","v","g","\""," ","w","i","d","t","h","=","\"","2","4","\""," ","h","e","i","g","h","t","=","\"","2","4","\""," ","v","i","e","w","B","o","x","=","\"","0"," ","0"," ","2","4"," ","2","4","\""," ","f","i","l","l","=","\"","#","0","0","0","0","0","0","\"",">","<","p","a","t","h"," ","d","=","\"","M","1"," ","1","\"","/",">","<","/","s","v","g",">">>

\* C2, as claimed: the example fragment, with no options, gives the text
\* with no space before the "/>" of the path.
C2_ExampleAsClaimed ==
  (Called /\ svgContent = ExampleFragment /\ options = NoOptions)
    => result = [success |-> TRUE, data |-> ExampleClaimed]

\* C2, amended: the example fragment, with no options, gives xmlns first,
\* the placeholder gone, the colour resolved, and the space before the
\* "/>" of the path kept.
C2_Example ==
  (Called /\ svgContent = ExampleFragment /\ options = NoOptions)
    => result = [success |-> TRUE, data |-> ExampleOutput]

C2_Witness ==
  pc = "transformed" /\ svgContent = ExampleFragment /\ options = NoOptions

\* the viewBox of t has four fields, and they are a b W H
ViewBoxWH(t) == extractViewBoxDimensions(t)

\* C3, as claimed: with a four-field viewBox "a b W H" and neither a width
\* nor a height option, the root tag of the result holds
\* width="W" height="H".
C3_ViewBoxDimensions ==
  (/\ Called
   /\ options.width = Absent /\ options.height = Absent
   /\ ViewBoxWH(svgContent).width # Absent /\ ViewBoxWH(svgContent).height # Absent)
    => Contains(RootTag(result.data),
                LitWidthEqQ \o ViewBoxWH(svgContent).width \o <<"\"", " ">>
                  \o LitHeightEqQ \o ViewBoxWH(svgContent).height \o <<"\"">>)

\* C4, as claimed: with both options given, the root tag of the result has
\* a width attribute equal to options.width and a height attribute equal to
\* options.height.
C4_ExplicitDimensions ==
  (Called /\ options.width # Absent /\ options.height # Absent)
    => /\ options.width \in Range(AttrValues(RootTag(result.data), NameWidth))
       /\ options.height \in Range(AttrValues(RootTag(result.data), NameHeight))

\* C5: with neither option and no viewBox in the text, the width and height
\* attributes of the result are those of the input, value by value, and
\* none is added.
C5_NoTargetNoChange ==
  (/\ Called
   /\ options.width = Absent /\ options.height = Absent
   /\ ~HasViewBox(svgContent))
    => /\ AttrValues(result.data, NameWidth) = AttrValues(svgContent, NameWidth)
       /\ AttrValues(result.data, NameHeight) = AttrValues(svgContent, NameHeight)

C5_Witness ==
  /\ pc = "transformed"
  /\ options.width = Absent /\ options.height = Absent
  /\ ~HasViewBox(svgContent)
  /\ Len(AttrValues(RootTag(svgContent), NameWidth)) = 1
  /\ AttrValues(RootTag(svgContent), NameHeight) = <<>>
  /\ Len(AttrValues(NestedPart(svgContent), NameWidth)) = 1

\* a target width or height is determined, from the options or the viewBox
TargetDetermined ==
  \/ targetWidth(AfterNumeric, options) # Absent
  \/ targetHeight(AfterNumeric, options) # Absent

\* C6: when a target width or height is determined, the width and height
\* attributes of the nested elements have the same values in the result as
\* in the input; only the root tag is rewritten.
C6_NestedUntouched ==
  (Called /\ TargetDetermined)
    => /\ AttrValues(NestedPart(result.data), NameWidth)
            = AttrValues(NestedPart(svgContent), NameWidth)
       /\ AttrValues(NestedPart(result.data), NameHeight)
            = AttrValues(NestedPart(svgContent), NameHeight)
       /\ NestedPart(AfterDimensions) = NestedPart(AfterNumeric)

C6_Witness ==
  /\ pc = "transformed"
  /\ TargetDetermined
  /\ RootTag(AfterDimensions) # RootTag(AfterNumeric)
  /\ AttrValues(RootTag(svgContent), NameWidth) = <<>>
  /\ Len(AttrValues(NestedPart(result.data), NameWidth)) = 1
  /\ Len(AttrValues(NestedPart(result.data), NameHeight)) = 1

\* C7: the result holds currentColor in no letter casing, and the resolved
\* colour (options.color, or #000000 without one) stands once for each
\* occurrence of the input.
C7_ColorResolved ==
  Called
    => /\ OccurrencesI(result.data, LitCurrentColor) = 0
       /\ Occurrences(result.data,
                      IF options.color # Absent THEN options.color ELSE DefaultColor)
            = OccurrencesI(svgContent, LitCurrentColor)

C7_Witness ==
  /\ pc = "transformed"
  /\ options.color # Absent
  /\ OccurrencesI(svgContent, LitCurrentColor) = 2
  /\ Occurrences(svgContent, <<"c","u","r","r","e","n","t","C","o","l","o","r">>) = 1

\* C8, as claimed: the result holds no spread-props placeholder
\* ("{", whitespace, "...props", whitespace, "}").
C8_NoPlaceholder ==
  Called => \A i \in 1..Len(result.data) : MSpread(result.data, i) = 0

LitXmlnsUrl == Sub(LitSvgXmlns, Len(LitSvg) + 1, Len(LitSvgXmlns))

\* C9, as claimed: the result holds exactly one xmlns declaration.
C9_ExactlyOneXmlns == Called => Occurrences(result.data, LitXmlnsEq) = 1

\* C9, amended: the result holds at least one xmlns declaration; exactly
\* one, put right after the root tag name, when the input has none; and as
\* many as the input when the input has some (none is added or dropped).
C9_Xmlns ==
  Called
    => LET n == Occurrences(svgContent, LitXmlnsEq)
       IN  /\ Occurrences(result.data, LitXmlnsEq) >= 1
           /\ n = 0 => /\ Occurrences(result.data, LitXmlnsEq) = 1
                       /\ HasAt(result.data, Len(LitSvg) + 1, LitXmlnsUrl)
           /\ n > 0 => Occurrences(result.data, LitXmlnsEq) = n

C9_Witness ==
  /\ pc = "transformed"
  /\ Occurrences(svgContent, LitXmlnsEq) = 2
  /\ Occurrences(result.data, LitXmlnsEq) = 2

\* C10: the result holds no attribute value ={N}, N an integer or decimal
\* literal; the numeric step leaves each attribute its value, quoted.
C10_NoNumericExpression ==
  Called
    => /\ \A i \in 1..Len(result.data) : ~NumericExprAt(result.data, i)
       /\ \A i \in 1..Len(AfterNumeric) : ~NumericExprAt(AfterNumeric, i)
       /\ \A name \in {NameWidth, NameHeight, NameRx} :
            AttrValues(AfterNumeric, name) = AttrValues(AfterColor, name)

C10_Witness ==
  /\ pc = "transformed"
  /\ \E i \in 1..Len(svgContent) :
       NumericExprAt(svgContent, i) /\ svgContent[i + 2] = " "
  /\ Contains(result.data, <<"r","x","=","\"","4",".","5","\"">>)
  /\ Contains(result.data, <<"w","i","d","t","h","=","\"","3","\"">>)

-----------------------------------------------------------------------------
(* Whitespace, attribute names and the other attributes of the root tag.   *)

AfterKebab == trace[6]

\* C11: the text transformSvg returns is single-spaced: every whitespace
\* character in it is a space (no newline, no tab), no two whitespace
\* characters stand side by side, and none stands right before a ">".
C11_SingleSpaced ==
  Called =>
    LET t == result.data
    IN  \A i \in 1..Len(t) :
          IsWs(t[i]) =>
            /\ t[i] = " "
            /\ i < Len(t) => (~IsWs(t[i + 1]) /\ t[i + 1] # ">")

\* a call on a text with a newline, a tab, a run of whitespace and
\* whitespace before ">", whose result is shorter than the text after the
\* casing step
C11_Witness ==
  /\ Called
  /\ \E i \in 1..Len(svgContent) : svgContent[i] = "\n"
  /\ \E i \in 1..Len(svgContent) : svgContent[i] = "\t"
  /\ \E i \in 1..(Len(AfterKebab) - 1) : IsWs(AfterKebab[i]) /\ IsWs(AfterKebab[i + 1])
  /\ \E i \in 1..(Len(AfterKebab) - 1) : IsWs(AfterKebab[i]) /\ AfterKebab[i + 1] = ">"
  /\ Len(result.data) < Len(AfterKebab)

\* the characters of an attribute name
NameChars == LetterSet \cup DigitSet \cup {"-", "_", ":", "."}

\* position i lies inside a tag, outside a quoted or braced attribute value
InTagOutsideValue(t, i) ==
  LET L == {j \in 1..(i - 1) : t[j] = "<"}
  IN  /\ L # {}
      /\ LET a == CHOOSE j \in L : \A k \in L : k <= j
         IN  /\ \A j \in a..(i - 1) : t[j] # ">"
             /\ Cardinality({j \in a..(i - 1) : t[j] = "\""}) % 2 = 0
             /\ Cardinality({j \in a..(i - 1) : t[j] = "{"})
                  = Cardinality({j \in a..(i - 1) : t[j] = "}"})

\* the length of the attribute name that starts at i: a run of name
\* characters after whitespace, before "=", in a tag and outside the
\* attribute values; 0 if no attribute name starts at i
AttrNameLen(t, i) ==
  IF ~(i > 1 /\ IsWs(t[i - 1]) /\ t[i] \in NameChars) THEN 0
  ELSE LET e == SkipWhile(t, i, NameChars)
       IN  IF e <= Len(t) /\ t[e] = "=" /\ InTagOutsideValue(t, i)
           THEN e - i ELSE 0

\* the attribute names of t, in the order they come
AttrNames(t) ==
  LET P == {i \in 1..Len(t) : AttrNameLen(t, i) > 0}
  IN  [k \in 1..Cardinality(P) |->
         LET i == CHOOSE j \in P : Cardinality({h \in P : h < j}) = k - 1
         IN  Sub(t, i, i + AttrNameLen(t, i) - 1)]

\* t without its attribute names
WithoutAttrNames(t) ==
  ReplaceAll(t, [i \in 1..Len(t) |-> AttrNameLen(t, i)], [i \in 1..Len(t) |-> <<>>])

\* a camelCase name: letters only, the first one lowercase, one uppercase
IsCamelName(n) ==
  /\ Len(n) > 1
  /\ IsLower(n[1])
  /\ \A k \in 1..Len(n) : IsLetter(n[k])
  /\ \E k \in 1..Len(n) : IsUpper(n[k])

\* kebab-case as the claim words it: a hyphen before each uppercase letter
\* that follows a lowercase letter or digit, the whole name lowercased
KebabName(n) ==
  LET f[k \in 0..Len(n)] ==
        IF k = 0 THEN <<>>
        ELSE f[k - 1]
             \o (IF k > 1 /\ IsUpper(n[k]) /\ (IsLower(n[k - 1]) \/ IsDigit(n[k - 1]))
                 THEN <<"-">> ELSE <<>>)
             \o <<LowerChar(n[k])>>
  IN  f[Len(n)]

NameViewBox == <<"v","i","e","w","B","o","x">>

NameFillRule == <<"f","i","l","l","R","u","l","e">>

NameFillRuleKebab == <<"f","i","l","l","-","r","u","l","e">>

\* C12: the casing step rewrites every camelCase attribute name outside
\* the allow-list to kebab-case and leaves every other attribute name,
\* allow-listed ones included, as written; the names are the same in the
\* returned text, which holds as many attributes named viewBox as the input.
C12_KebabAttributeNames ==
  Called =>
    LET before == AttrNames(AfterXmlns)
        after  == AttrNames(AfterKebab)
        final  == AttrNames(result.data)
        given  == AttrNames(svgContent)
    IN  /\ Len(after) = Len(before)
        /\ \A k \in 1..Len(before) :
             after[k] = IF IsCamelName(before[k]) /\ before[k] \notin SVG_CAMEL_CASE_ATTRS
                        THEN KebabName(before[k])
                        ELSE before[k]
        /\ final = after
        /\ \A k \in 1..Len(final) :
             ~(IsCamelName(final[k]) /\ final[k] \notin SVG_CAMEL_CASE_ATTRS)
        /\ Cardinality({k \in 1..Len(final) : final[k] = NameViewBox})
             = Cardinality({k \in 1..Len(given) : given[k] = NameViewBox})

\* a call on a text with the attributes fillRule and viewBox, returning
\* the names fill-rule and viewBox
C12_Witness ==
  /\ Called
  /\ NameFillRule \in Range(AttrNames(svgContent))
  /\ NameViewBox \in Range(AttrNames(svgContent))
  /\ NameFillRuleKebab \in Range(AttrNames(result.data))
  /\ NameViewBox \in Range(AttrNames(result.data))
  /\ NameFillRule \notin Range(AttrNames(result.data))

\* C13, as claimed: the casing step changes attribute names only; what is
\* left of the text when the attribute names are taken out (tag names,
\* attribute values, element text) is the same before and after the step.
C13_OnlyAttributeNames ==
  Called => WithoutAttrNames(AfterKebab) = WithoutAttrNames(AfterXmlns)

\* C18, as claimed: the rewrite of width and height in the root opening
\* tag changes no other attribute of that tag; every attribute with another
\* name, stroke-width among them, has the same values after the step as
\* before it.
C18_OtherAttributesKept ==
  Called =>
    LET before == RootTag(AfterNumeric)
        after  == RootTag(AfterDimensions)
    IN  \A n \in Range(AttrNames(before)) \ {NameWidth, NameHeight} :
          AttrValues(after, n) = AttrValues(before, n)

-----------------------------------------------------------------------------
(* The extractor: extractSvgFromTsx (extractor.ts).                        *)

\* a variant that takes any "<svg", whatever follows it: /<svg/i
MSvgOpen_AnyNext(s, i) == IF HasAtI(s, i, LitSvg) /\ i + 4 <= Len(s) THEN 5 ELSE 0

\* /<svg[\s>]/i
MSvgOpen(s, i) ==
  IF /\ HasAtI(s, i, LitSvg)
     /\ i + 4 <= Len(s)
     /\ (IsWs(s[i + 4]) \/ s[i + 4] = ">")
  THEN 5 ELSE 0

\* a variant that does not ask for the end tag: /<svg[\s>][^]*/i
MSvgElement_Unclosed(s, i) == IF MSvgOpen(s, i) = 0 THEN 0 ELSE Len(s) - i + 1

\* /<svg[\s>][^]*?<\/svg>/i: the opening, then as little as possible up to
\* an end tag
MSvgElement(s, i) ==
  IF MSvgOpen(s, i) = 0 THEN 0
  ELSE LET E == {e \in (i + 5)..Len(s) : HasAtI(s, e, LitSvgClose)}
       IN  IF E = {} THEN 0 ELSE Least(E) + Len(LitSvgClose) - i

\* String.prototype.indexOf, counted from 1; 0 if lit is not in s
indexOf(s, lit) ==
  LET P == {i \in 1..Len(s) : HasAt(s, i, lit)}
  IN  IF P = {} THEN 0 ELSE Least(P)

\* new ExtractionError(message, cause); the message is a text followed by
\* the path of the file
NoCause == "undefined"

ExtractionError(text, path, cause) ==
  [name |-> "ExtractionError", message |-> <<text, path>>, cause |-> cause]

MsgNoSvg == "No SVG tag found in file: "

MsgReadFailed == "Failed to read or extract SVG from file: "

\* what readFile(filePath, 'utf-8') does: it yields the text of the file or
\* throws
ReadOk(text) == [ok |-> TRUE, data |-> text]

ReadThrows(err) == [ok |-> FALSE, error |-> err]

\* content.match(/<svg[\s>][^]*?<\/svg>/i): the matched text, <<>> if none
\* (a match is never empty)
svgMatchOf(content) ==
  LET at == FirstMatch(content, [i \in 1..Len(content) |-> MSvgElement(content, i)])
  IN  IF at = 0 THEN <<>> ELSE Sub(content, at, at + MSvgElement(content, at) - 1)

\* lines 36-40: the matched text from its proper opening tag on
fromOpening(svgMatch) ==
  LET open       == FirstMatch(svgMatch, [i \in 1..Len(svgMatch) |-> MSvgOpen(svgMatch, i)])
      startIndex == IF open = 0 THEN 1
                    ELSE indexOf(svgMatch, Sub(svgMatch, open, open + 4))
  IN  Sub(svgMatch, startIndex, Len(svgMatch))

\* lines 23-45, on the content that was read
extractFromContent(filePath, svgMatch) ==
  IF svgMatch = <<>>
  THEN [success |-> FALSE, error |-> ExtractionError(MsgNoSvg, filePath, NoCause)]
  ELSE [success |-> TRUE, data |-> fromOpening(svgMatch)]

\* extractSvgFromTsx(filePath), where read is what readFile does
extractSvgFromTsx(filePath, read) ==
  IF ~read.ok
  THEN [success |-> FALSE, error |-> ExtractionError(MsgReadFailed, filePath, read.error)]
  ELSE extractFromContent(filePath, svgMatchOf(read.data))

\* the most pieces a generated source file is made of
MaxPieces == 4

\* the pieces of a source file: a type reference bearing the tag name, root
\* tags in two casings, end tags in two casings, text
SourcePieces ==
  {<<"<","S","V","G","S","V","G","E","l","e","m","e","n","t",">">>,
   <<"<","s","v","g"," ","a",">">>,
   <<"<","s","v","g",">">>,
   <<"<","S","v","g","\n",">">>,
   <<"<","/","s","v","g",">">>,
   <<"<","/","S","V","G",">">>,
   <<"b">>}

\* the texts made of n pieces
SourcesOf[n \in 0..(MaxPieces + 1)] ==
  IF n = 0 THEN {<<>>}
  ELSE {p \o s : p \in SourcePieces, s \in SourcesOf[n - 1]}

Sources == UNION {SourcesOf[n] : n \in 0..MaxPieces}

\* the errors readFile throws
ReadErrors == {"ENOENT", "EACCES"}

Paths == {<<"i","c","o","n","s","/","A","d","d","M","e","m","b","e","r",".","t","s","x">>,
          <<"i","c","o","n","s","/","x",".","t","s","x">>}

\* the value of extractResult before the call
ExtractNotCalled ==
  [success |-> FALSE, error |-> [name |-> "none", message |-> <<>>, cause |-> NoCause]]

InitExtract ==
  /\ inputPath \in Paths
  /\ readOutcome \in {ReadOk(t) : t \in Sources} \cup {ReadThrows(e) : e \in ReadErrors}
  /\ extractResult = ExtractNotCalled
  /\ outputPath = <<>>
  /\ TransformerUnused
  /\ DriverUnused

\* await extractSvgFromTsx(inputPath)
Extract ==
  /\ extractResult = ExtractNotCalled
  /\ extractResult' = extractSvgFromTsx(inputPath, readOutcome)
  /\ UNCHANGED <<inputPath, readOutcome, outputPath, transformerVars, driverVars>>

NextExtract == Extract

SpecExtract == InitExtract /\ [][NextExtract]_vars

\* the places of the source where a root tag opens: "<svg" in any letter
\* casing, then whitespace or ">"
OpeningsOf(t) ==
  {i \in 1..Len(t) : HasAtI(t, i, LitSvg) /\ i + 4 <= Len(t) /\ t[i + 4] \in WsSet \cup {">"}}

\* the places of an end tag, in any letter casing
ClosingsOf(t) == {i \in 1..Len(t) : HasAtI(t, i, LitSvgClose)}

\* the source holds a root tag and, after it, an end tag
HasElement(t) == \E a \in OpeningsOf(t) : \E b \in ClosingsOf(t) : b > a

Extracted == extractResult # ExtractNotCalled

\* C14: extractSvgFromTsx always returns a Result: when reading the file
\* fails, a failure whose error wraps what readFile threw; when the text
\* holds no root tag followed by an end tag, a failure whose error message
\* names the file and has no cause; and a success in every other case.
C14_ExtractFailures ==
  Extracted =>
    /\ extractResult.success \in BOOLEAN
    /\ ~readOutcome.ok =>
         /\ ~extractResult.success
         /\ extractResult.error.cause = readOutcome.error
         /\ extractResult.error.message = <<MsgReadFailed, inputPath>>
    /\ (readOutcome.ok /\ ~HasElement(readOutcome.data)) =>
         /\ ~extractResult.success
         /\ extractResult.error.message = <<MsgNoSvg, inputPath>>
         /\ extractResult.error.cause = NoCause
    /\ (readOutcome.ok /\ HasElement(readOutcome.data)) => extractResult.success

\* a failed extraction on a text that has a root tag but no end tag after it
C14_Witness ==
  /\ Extracted
  /\ readOutcome.ok
  /\ OpeningsOf(readOutcome.data) # {}
  /\ ClosingsOf(readOutcome.data) # {}
  /\ ~extractResult.success
  /\ extractResult.error.message[2] = inputPath

\* a failed extraction on a file that could not be read
C14_WitnessRead ==
  /\ Extracted
  /\ ~readOutcome.ok
  /\ ~extractResult.success
  /\ extractResult.error.cause \in ReadErrors

\* C15: a successful extraction returns the part of the source from the
\* first root tag ("<svg" in any casing, then whitespace or ">") to the
\* nearest end tag after it: it does not start at a longer tag name, it
\* holds one end tag, at its end, and what follows in the source is left out.
C15_FirstElement ==
  (Extracted /\ extractResult.success) =>
    /\ HasElement(readOutcome.data)
    /\ LET t == readOutcome.data
           d == extractResult.data
           a == Least(OpeningsOf(t))
           b == Least({e \in ClosingsOf(t) : e > a})
       IN  /\ d = Sub(t, a, b + Len(LitSvgClose) - 1)
           /\ HasAtI(d, 1, LitSvg) /\ d[5] \in WsSet \cup {">"}
           /\ ClosingsOf(d) = {Len(d) - Len(LitSvgClose) + 1}

\* a successful extraction from a text that begins with the type reference
\* and holds two elements
C15_Witness ==
  /\ Extracted
  /\ extractResult.success
  /\ HasAtI(readOutcome.data, 1, <<"<","s","v","g","s","v","g">>)
  /\ Cardinality(ClosingsOf(readOutcome.data)) = 2
  /\ Len(extractResult.data) < Len(readOutcome.data) - 15

-----------------------------------------------------------------------------
(* The name of the output file: toSnakeCase and the first statements of    *)
(* processFile (main.ts).                                                  *)

\* /([A-Z])/
MUpper(s, i) == IF IsUpper(s[i]) THEN 1 ELSE 0

\* /^_/
MLeadingUnderscore(s, i) == IF i = 1 /\ s[i] = "_" THEN 1 ELSE 0

\* a variant without the last replace: the leading underscore stays
toSnakeCase_KeepLeading(str) ==
  toLowerCase(ReplaceAll(str, [i \in 1..Len(str) |-> MUpper(str, i)],
                              [i \in 1..Len(str) |-> <<"_", str[i]>>]))

toSnakeCase(str) ==
  LET marked  == ReplaceAll(str, [i \in 1..Len(str) |-> MUpper(str, i)],
                                 [i \in 1..Len(str) |-> <<"_", str[i]>>])
      lowered == toLowerCase(marked)
  IN  ReplaceFirst(lowered, [i \in 1..Len(lowered) |-> MLeadingUnderscore(lowered, i)],
                            [i \in 1..Len(lowered) |-> <<>>])

\* s ends with suffix
EndsWith(s, suffix) ==
  Len(s) >= Len(suffix) /\ HasAt(s, Len(s) - Len(suffix) + 1, suffix)

\* path.basename(p, ext): what follows the last "/", without ext at its end
basename(p, ext) ==
  LET S    == {i \in 1..Len(p) : p[i] = "/"}
      from == IF S = {} THEN 1 ELSE (CHOOSE i \in S : \A j \in S : j <= i) + 1
      base == Sub(p, from, Len(p))
  IN  IF Len(base) > Len(ext) /\ EndsWith(base, ext)
      THEN Sub(base, 1, Len(base) - Len(ext))
      ELSE base

\* path.join(a, b) for two plain relative paths
join(a, b) == a \o <<"/">> \o b

ExtTsx == <<".","t","s","x">>

ExtSvg == <<".","s","v","g">>

InputDir == <<"i","c","o","n","s">>

OutputDir == <<"r","e","s","u","l","t","s">>

\* --group: absent, or a folder name
Groups == {Absent, <<"d","a","r","k">>}

\* processFile, lines 51-57: the path of the output file
outputPathOf(path, outputDir, group) ==
  LET fileName          == basename(path, ExtTsx)
      snakeCaseFileName == toSnakeCase(fileName)
      targetDir         == IF group # Absent THEN join(outputDir, group) ELSE outputDir
      outputFileName    == snakeCaseFileName \o ExtSvg
  IN  join(targetDir, outputFileName)

\* the longest generated base name
MaxNameLen == 4

NameAlphabet == {"A", "M", "d", "e", "2", "_"}

NamesOf[n \in 0..(MaxNameLen + 1)] ==
  IF n = 0 THEN {<<>>}
  ELSE {<<c>> \o s : c \in NameAlphabet, s \in NamesOf[n - 1]}

NameAddMember == <<"A","d","d","M","e","m","b","e","r">>

\* the base names of the input files: generated ones and the README's
BaseNames == UNION {NamesOf[n] : n \in 1..MaxNameLen} \cup {NameAddMember}

InitNames ==
  /\ inputPath \in {join(InputDir, n \o ExtTsx) : n \in BaseNames}
  /\ outputPath = <<>>
  /\ readOutcome = <<>>
  /\ extractResult = <<>>
  /\ TransformerUnused
  /\ DriverUnused

\* processFile, lines 51-57
NameOutput ==
  /\ outputPath = <<>>
  /\ \E group \in Groups : outputPath' = outputPathOf(inputPath, OutputDir, group)
  /\ UNCHANGED <<inputPath, readOutcome, extractResult, transformerVars, driverVars>>

NextNames == NameOutput

SpecNames == InitNames /\ [][NextNames]_vars

\* a PascalCase or camelCase name: letters and digits, a letter first
IsPascalOrCamel(n) ==
  /\ Len(n) > 0
  /\ IsLetter(n[1])
  /\ \A k \in 1..Len(n) : IsLetter(n[k]) \/ IsDigit(n[k])

\* snake_case as the claim words it: an underscore before each uppercase
\* letter but a leading one, everything lowercased
SnakeName(n) ==
  LET f[k \in 0..Len(n)] ==
        IF k = 0 THEN <<>>
        ELSE f[k - 1]
             \o (IF k > 1 /\ IsUpper(n[k]) THEN <<"_">> ELSE <<>>)
             \o <<LowerChar(n[k])>>
  IN  f[Len(n)]

Named == outputPath # <<>>

\* C17: for a PascalCase or camelCase base name, the base name of the
\* output file has an underscore before each uppercase letter and is
\* lowercased; a name without uppercase letters is kept as it is, and the
\* result never begins with an underscore.
C17_SnakeCase ==
  Named =>
    LET n == basename(inputPath, ExtTsx)
        r == basename(outputPath, ExtSvg)
    IN  IsPascalOrCamel(n) =>
          /\ r = SnakeName(n)
          /\ r = toSnakeCase(n)
          /\ (\A k \in 1..Len(n) : ~IsUpper(n[k])) => r = n
          /\ r[1] # "_"
          /\ \A k \in 1..Len(r) : ~IsUpper(r[k])

\* AddMember.tsx is written to add_member.svg
C17_Witness ==
  /\ Named
  /\ basename(inputPath, ExtTsx) = NameAddMember
  /\ basename(outputPath, ExtSvg) = <<"a","d","d","_","m","e","m","b","e","r">>

-----------------------------------------------------------------------------
(* The batch driver: processFile and the loop of main (main.ts).           *)

MsgTransformFailed == "Failed to transform SVG content"

MsgWriteFailed == "Failed to write output file: "

\* new TransformationError(message, cause)
TransformationError(text, cause) ==
  [name |-> "TransformationError", message |-> <<text>>, cause |-> cause]

\* transformSvg as processFile sees it: the Result of the try block, or that
\* of the catch block when a statement of the try block throws (the
\* engine's RangeError on a text too long, the only way on a string)
transformSvgOrCaught(content, o, thrown) ==
  IF thrown # NoCause
  THEN [success |-> FALSE, error |-> TransformationError(MsgTransformFailed, thrown)]
  ELSE transformSvg(content, o)

\* a variant that reports a failed stage as a success
failure_AsSuccess(file, message) == [file |-> file, success |-> TRUE]

\* the ProcessResult of a file that failed, with the message of the error
failure(file, message) == [file |-> file, success |-> FALSE, error |-> message]

\* the ProcessResult of a file that was written
succeeded(file) == [file |-> file, success |-> TRUE]

\* the for loop of main after a result was pushed: the next file, or the
\* summary after the last one
stepAfter_StopOnFailure(i, n, res) ==
  IF i < n /\ res.success THEN "extract" ELSE "summary"

stepAfter(i, n, res) == IF i < n THEN "extract" ELSE "summary"

\* the exit status of the process after the summary
exitStatus(rs) ==
  LET failed == Cardinality({k \in 1..Len(rs) : ~rs[k].success})
  IN  IF failed > 0 THEN 1 ELSE 0

\* the most files a generated batch holds
MaxFiles == 3

\* a source file with one SVG element, as in the README's example
GoodSource ==
  <<"(","p",":"," ","S","V","G","P","r","o","p","s","<","S","V","G","S","V","G","E","l","e","m","e","n","t",">",")"," ","=",">"," ","(","\n">>
  \o ExampleFragment \o <<"\n",")">>

\* a source file without an SVG element
NoSvgSource == <<"e","x","p","o","r","t"," ","{","}">>

\* what can happen to a file: it cannot be read, it holds no SVG element,
\* the transformer throws on it, it cannot be written, or all goes well
FileKinds ==
  {[read |-> ReadThrows("ENOENT"), transformThrows |-> NoCause, writeThrows |-> NoCause],
   [read |-> ReadOk(NoSvgSource), transformThrows |-> NoCause, writeThrows |-> NoCause],
   [read |-> ReadOk(GoodSource), transformThrows |-> "RangeError", writeThrows |-> NoCause],
   [read |-> ReadOk(GoodSource), transformThrows |-> NoCause, writeThrows |-> "EACCES"],
   [read |-> ReadOk(GoodSource), transformThrows |-> NoCause, writeThrows |-> NoCause]}

\* the path of the k-th file found: icons/IconA.tsx, icons/IconB.tsx, ...
PathOfFile(k) == join(InputDir, <<"I","c","o","n", Uppers[k]>> \o ExtTsx)

\* the lists of n files
FilesOf[n \in 0..(MaxFiles + 1)] ==
  IF n = 0 THEN {<<>>}
  ELSE {Append(fs, [path |-> PathOfFile(n), kind |-> k]) : fs \in FilesOf[n - 1], k \in FileKinds}

\* the options main hands to processFile
MainOptions == [width |-> Absent, height |-> Absent, color |-> Absent]

MainGroup == Absent

\* the exit status of a process that has not exited
Running == 0 - 1

\* main after glob returned the files (line 157)
InitMain ==
  /\ files \in UNION {FilesOf[n] : n \in 0..MaxFiles}
  /\ fileIndex = 0
  /\ step = "start"
  /\ transformResult = NotCalled
  /\ results = <<>>
  /\ calls = <<>>
  /\ outputs = {}
  /\ exitCode = Running
  /\ inputPath = <<>>
  /\ readOutcome = <<>>
  /\ extractResult = ExtractNotCalled
  /\ outputPath = <<>>
  /\ TransformerUnused

\* lines 163-166: no file was found
NoFiles ==
  /\ step = "start"
  /\ Len(files) = 0
  /\ step' = "done"
  /\ exitCode' = 0
  /\ UNCHANGED <<files, fileIndex, transformResult, results, calls, outputs,
                 extractorVars, transformerVars>>

\* lines 168-172: the loop starts with the first file
StartBatch ==
  /\ step = "start"
  /\ Len(files) > 0
  /\ fileIndex' = 1
  /\ step' = "extract"
  /\ results' = <<>>
  /\ UNCHANGED <<files, transformResult, calls, outputs, exitCode,
                 extractorVars, transformerVars>>

\* processFile, lines 51-67, and lines 174-181 when it returns here
ExtractStage ==
  /\ step = "extract"
  /\ LET f   == files[fileIndex]
         res == extractSvgFromTsx(f.path, f.kind.read)
     IN  /\ inputPath' = f.path
         /\ readOutcome' = f.kind.read
         /\ outputPath' = outputPathOf(f.path, OutputDir, MainGroup)
         /\ extractResult' = res
         /\ calls' = Append(calls, [file |-> fileIndex, stage |-> "extract", success |-> res.success])
         /\ IF ~res.success
            THEN LET r == failure(f.path, res.error.message)
                 IN  /\ results' = Append(results, r)
                     /\ step' = stepAfter(fileIndex, Len(files), r)
                     /\ fileIndex' = fileIndex + 1
            ELSE /\ step' = "transform"
                 /\ UNCHANGED <<results, fileIndex>>
  /\ UNCHANGED <<files, transformResult, outputs, exitCode, transformerVars>>

\* processFile, lines 69-77, and lines 174-181 when it returns here
TransformStage ==
  /\ step = "transform"
  /\ LET f   == files[fileIndex]
         res == transformSvgOrCaught(extractResult.data, MainOptions, f.kind.transformThrows)
     IN  /\ transformResult' = res
         /\ calls' = Append(calls, [file |-> fileIndex, stage |-> "transform", success |-> res.success])
         /\ IF ~res.success
            THEN LET r == failure(f.path, res.error.message)
                 IN  /\ results' = Append(results, r)
                     /\ step' = stepAfter(fileIndex, Len(files), r)
                     /\ fileIndex' = fileIndex + 1
            ELSE /\ step' = "write"
                 /\ UNCHANGED <<results, fileIndex>>
  /\ UNCHANGED <<files, outputs, exitCode, extractorVars, transformerVars>>

\* processFile, lines 79-92, and lines 174-181
WriteStage ==
  /\ step = "write"
  /\ LET f      == files[fileIndex]
         thrown == f.kind.writeThrows
         r      == IF thrown # NoCause
                   THEN failure(f.path, <<MsgWriteFailed, thrown>>)
                   ELSE succeeded(f.path)
     IN  /\ calls' = Append(calls, [file |-> fileIndex, stage |-> "write", success |-> thrown = NoCause])
         /\ outputs' = IF thrown # NoCause THEN outputs
                       ELSE {o \in outputs : o.path # outputPath}
                            \cup {[path |-> outputPath, data |-> transformResult.data]}
         /\ results' = Append(results, r)
         /\ step' = stepAfter(fileIndex, Len(files), r)
         /\ fileIndex' = fileIndex + 1
  /\ UNCHANGED <<files, transformResult, exitCode, extractorVars, transformerVars>>

\* lines 183-192: the summary and the exit status
Summary ==
  /\ step = "summary"
  /\ exitCode' = exitStatus(results)
  /\ step' = "done"
  /\ UNCHANGED <<files, fileIndex, transformResult, results, calls, outputs,
                 extractorVars, transformerVars>>

NextMain ==
  \/ NoFiles
  \/ StartBatch
  \/ ExtractStage
  \/ TransformStage
  \/ WriteStage
  \/ Summary

SpecMain == InitMain /\ [][NextMain]_vars

\* the calls made for the i-th file, in the order they were made
CallsOf(i) == SelectSeq(calls, LAMBDA c : c.file = i)

\* the files for which extractSvgFromTsx was called, in the order of the calls
ExtractedFiles ==
  LET cs == SelectSeq(calls, LAMBDA c : c.stage = "extract")
  IN  [k \in 1..Len(cs) |-> cs[k].file]

StageOrder == <<"extract", "transform", "write">>

\* C16: a failing file does not end the batch.  While the batch runs, the
\* files before the current one have one entry each in results, in the
\* order of the list, and the process has not exited; when main is done
\* with a non-empty list, every file was processed once, in list order,
\* results has one entry per file, and the exit status is 1 if an entry
\* failed and 0 if none did.
C16_BatchCompletes ==
  /\ Len(results) <= Len(files)
  /\ \A k \in 1..Len(results) : results[k].file = files[k].path
  /\ step \in {"extract", "transform", "write"} =>
       /\ fileIndex \in 1..Len(files)
       /\ Len(results) = fileIndex - 1
  /\ step # "done" <=> exitCode = Running
  /\ (step = "done" /\ Len(files) > 0) =>
       /\ Len(results) = Len(files)
       /\ ExtractedFiles = [k \in 1..Len(files) |-> k]
       /\ exitCode \in {0, 1}
       /\ exitCode # 0 <=> \E k \in 1..Len(results) : ~results[k].success

\* main is done with a batch whose first file failed and whose last file
\* was written
C16_Witness ==
  /\ step = "done"
  /\ Len(files) = MaxFiles
  /\ ~results[1].success
  /\ results[Len(files)].success
  /\ exitCode = 1

\* C19: for every file the stages are called in the order extract,
\* transform, write, each at most once and each only after the one before
\* it succeeded; a file with a failed stage has a failed result; and an
\* output file exists only for a file whose three stages succeeded.
C19_StagesInOrder ==
  \A i \in 1..Len(files) :
    LET cs == CallsOf(i)
    IN  /\ Len(cs) <= Len(StageOrder)
        /\ \A k \in 1..Len(cs) : cs[k].stage = StageOrder[k]
        /\ \A k \in 2..Len(cs) : cs[k - 1].success
        /\ (i <= Len(results) /\ \E k \in 1..Len(cs) : ~cs[k].success) =>
             ~results[i].success
        /\ (\E o \in outputs : o.path = outputPathOf(files[i].path, OutputDir, MainGroup)) =>
             /\ Len(cs) = Len(StageOrder)
             /\ \A k \in 1..Len(cs) : cs[k].success

\* main is done with a batch in which one file failed at the extraction,
\* one at the transformation, and one was written
C19_Witness ==
  /\ step = "done"
  /\ \E i \in 1..Len(files) :
       Len(CallsOf(i)) = 1 /\ ~results[i].success
  /\ \E i \in 1..Len(files) :
       Len(CallsOf(i)) = 2 /\ ~results[i].success
  /\ \E i \in 1..Len(files) :
       /\ Len(CallsOf(i)) = 3 /\ results[i].success
       /\ \E o \in outputs : o.path = outputPathOf(files[i].path, OutputDir, MainGroup)
  /\ Cardinality(outputs) = 1

=============================================================================
